---- MODULE Spec2Model ----
(***************************************************************************)
(* Model of splice_file_organizer.cpp: the filename classifier and the     *)
(* placer (recursive traversal, collision resolution, processed registry). *)
(*                                                                         *)
(* A string is a sequence of one-character strings, so that to_lower,      *)
(* std::string::find, path::stem and path::extension are computed          *)
(* character by character as the code and the standard library do.         *)
(***************************************************************************)
EXTENDS Naturals, Sequences, FiniteSets

(***************************************************************************)
(* Bounds of the model.                                                    *)
(***************************************************************************)
\* Stands for the loop ceiling 999999 of organize_file (line 183), scaled
\* down so that the exhausted search is reachable.
IndexCeiling == 2
\* Largest number of file entries in a source tree.
MaxFiles == 3
\* Largest number of filesystem failures injected in one behaviour.
MaxFaults == 1
\* Largest number of name fragments concatenated into a classifier input.
MaxTokens == 2

(***************************************************************************)
(* Strings.                                                                *)
(***************************************************************************)
UpperChars ==
    << "A", "B", "C", "D", "E", "F", "G", "H", "I", "J", "K", "L", "M",
       "N", "O", "P", "Q", "R", "S", "T", "U", "V", "W", "X", "Y", "Z" >>

LowerChars ==
    << "a", "b", "c", "d", "e", "f", "g", "h", "i", "j", "k", "l", "m",
       "n", "o", "p", "q", "r", "s", "t", "u", "v", "w", "x", "y", "z" >>

DigitChars == << "0", "1", "2", "3", "4", "5", "6", "7", "8", "9" >>

\* ::tolower in the "C" locale: A-Z to a-z, every other character unchanged.
UpperToLower ==
    [c \in { UpperChars[i] : i \in 1..26 } |->
        LowerChars[CHOOSE i \in 1..26 : UpperChars[i] = c]]

tolower(c) == IF c \in DOMAIN UpperToLower THEN UpperToLower[c] ELSE c

\* to_lower: std::transform of ::tolower over a copy of the string.
to_lower(str) == [i \in 1..Len(str) |-> tolower(str[i])]

\* std::string::find(pat) != npos
find(str, pat) ==
    \E i \in 1..(Len(str) + 1 - Len(pat)) :
        SubSeq(str, i, i + Len(pat) - 1) = pat

\* std::to_string(int) for a non-negative int.
RECURSIVE to_string(_)
to_string(n) ==
    IF n < 10
    THEN << DigitChars[n + 1] >>
    ELSE to_string(n \div 10) \o << DigitChars[(n % 10) + 1] >>

(***************************************************************************)
(* std::filesystem::path decomposition of a filename (one path component). *)
(***************************************************************************)
\* Position of the rightmost period, 0 when there is none.
LastDot(name) ==
    IF \E i \in 1..Len(name) : name[i] = "."
    THEN CHOOSE i \in 1..Len(name) :
            /\ name[i] = "."
            /\ \A j \in (i + 1)..Len(name) : name[j] # "."
    ELSE 0

\* path::extension: from the rightmost period on; empty for "." and "..",
\* and when the only period is the first character.
extension(name) ==
    IF name = << "." >> \/ name = << ".", "." >> \/ LastDot(name) <= 1
    THEN << >>
    ELSE SubSeq(name, LastDot(name), Len(name))

\* path::stem: the filename without its extension.
stem(name) == SubSeq(name, 1, Len(name) - Len(extension(name)))

\* A filter that lets every file through.
is_audio_file_any(name) == TRUE

\* is_audio_file
is_audio_file(name) ==
    LET ext == to_lower(extension(name))
    IN  ext = << ".", "w", "a", "v" >> \/ ext = << ".", "m", "p", "3" >>

\* append_index_to_filename
append_index_to_filename(name, index) ==
    stem(name) \o << "_" >> \o to_string(index) \o extension(name)

(***************************************************************************)
(* The classifier: the if / else-if chain of organize_file, applied to the *)
(* lowercased filename.  A category is the pair of folder names appended   *)
(* to the destination root.                                                *)
(***************************************************************************)
Chain(filename) ==
    IF find(filename, << "8", "0", "8" >>)
    THEN << "Drums", "808" >>
    ELSE IF \/ find(filename, << "s", "n", "a", "r", "e" >>)
            \/ find(filename, << "_", "s", "n", "r" >>)
            \/ find(filename, << "s", "n", "r", "_" >>)
    THEN << "Drums", "Snare" >>
    ELSE IF \/ find(filename, << "k", "i", "c", "k" >>)
            \/ find(filename, << "_", "k", "c", "k" >>)
            \/ find(filename, << "k", "c", "k", "_" >>)
    THEN << "Drums", "Kick" >>
    ELSE IF \/ find(filename, << "c", "l", "a", "p" >>)
            \/ find(filename, << "_", "c", "l", "p" >>)
            \/ find(filename, << "c", "l", "p", "_" >>)
    THEN << "Drums", "Clap" >>
    ELSE IF \/ find(filename, << "h", "a", "t" >>)
            \/ find(filename, << "h", "t", "_" >>)
            \/ find(filename, << "_", "h", "t" >>)
    THEN << "Drums", "Hat" >>
    ELSE IF \/ find(filename, << "d", "r", "u", "m" >>)
            \/ find(filename, << "_", "d", "r", "m" >>)
            \/ find(filename, << "d", "r", "m", "_" >>)
    THEN << "Drums", "Other" >>
    ELSE IF find(filename, << "l", "o", "o", "p" >>)
    THEN << "Other", "Loop" >>
    ELSE << "Other", "Other" >>

\* A classifier that matches the filename as spelled.
CategoryOf_case_sensitive(name) == Chain(name)

\* The category organize_file chooses for a source filename (line 116: the
\* chain runs on to_lower(source.filename())).
CategoryOf(name) == Chain(to_lower(name))

(***************************************************************************)
(* The source tree.  Directories are numbered: 0 is the source root, 1 and *)
(* 3 are its subdirectories, 2 is a subdirectory of 1.  A file entry is a  *)
(* record [id, dir, name]; id also stands for the file's bytes.            *)
(***************************************************************************)
kick_wav == << "k", "i", "c", "k", ".", "w", "a", "v" >>
Kick_WAV == << "K", "i", "c", "k", ".", "W", "A", "V" >>
kick_txt == << "k", "i", "c", "k", ".", "t", "x", "t" >>
hat_mp3  == << "h", "a", "t", ".", "m", "p", "3" >>

Directories == { 0, 1, 2, 3 }

ParentOf(d) == CASE d = 1 -> 0 [] d = 2 -> 1 [] d = 3 -> 0 [] OTHER -> d

FilePool ==
    { [id |-> 1, dir |-> 1, name |-> kick_wav],
      [id |-> 2, dir |-> 2, name |-> kick_wav],
      [id |-> 3, dir |-> 3, name |-> kick_wav],
      [id |-> 4, dir |-> 0, name |-> Kick_WAV],
      [id |-> 5, dir |-> 3, name |-> kick_txt],
      [id |-> 6, dir |-> 2, name |-> hat_mp3] }

\* Files that may sit in the destination before the run: the candidate
\* destination of kick.wav and its indexed names under the destination root.
\* Their bytes are 0, the bytes of no source file.
PreExistingPool ==
    { [dir |-> << "Drums", "Kick" >>, name |-> kick_wav, data |-> 0] }
    \cup { [dir |-> << >>, name |-> append_index_to_filename(kick_wav, i),
            data |-> 0] : i \in 0..(IndexCeiling - 1) }

(***************************************************************************)
(* Paths below the destination root.  A path is [dir, name]; dir is the    *)
(* sequence of folders below the root.                                     *)
(***************************************************************************)
\* dest_path (lines 117-162): destination / group / subgroup / filename
DestPath(name) == [dir |-> CategoryOf(name), name |-> name]

\* An indexed path inside the category folder.
IndexedDestPath_in_category(name, i) ==
    [dir |-> CategoryOf(name), name |-> append_index_to_filename(name, i)]

\* indexed_dest_path (lines 184-185): destination / <stem>_<i><extension>
IndexedDestPath(name, i) ==
    [dir |-> << >>, name |-> append_index_to_filename(name, i)]

(***************************************************************************)
(* The string functions above, tabulated over the names of the model: each *)
(* is computed once per name instead of once per use.                      *)
(***************************************************************************)
SourceNames == { f.name : f \in FilePool }

KnownNames ==
    SourceNames
    \cup { f.name : f \in PreExistingPool }
    \cup { append_index_to_filename(n, i) :
            n \in SourceNames, i \in 0..(IndexCeiling - 1) }

LowerOf == [n \in KnownNames |-> to_lower(n)]

AudioOf == [n \in SourceNames |-> is_audio_file(n)]

DestPathOf == [n \in SourceNames |-> DestPath(n)]

IndexedDestPathOf ==
    [n \in SourceNames |->
        [i \in 0..(IndexCeiling - 1) |-> IndexedDestPath(n, i)]]

VARIABLES
    fname,            \* classifier run: the filename handed to organize_file
    category,         \* classifier run: the category chosen, << >> before
    source_files,     \* the file entries of the source tree
    case_insensitive, \* whether the destination filesystem folds ASCII case
    print_info,       \* the verbose flag
    files,            \* destination tree: set of [dir, name, data]
    processed_files,  \* the registry (line 68)
    stack,            \* process_directory activations: [dir, todo]
    pc,               \* "run" while traversing, "done" after
    cout,             \* records printed to std::cout
    cerr,             \* records printed to std::cerr
    visits,           \* history: calls of organize_file per file id
    failed,           \* history: file ids during which a filesystem call threw
    copied,           \* history: file ids whose copy_file returned
    written,          \* history: destination paths this run wrote
    removed,          \* history: destination files this run removed
    faults,           \* history: number of injected failures
    traversal_errors, \* history: whether a directory listing threw
    run,              \* 1 in the first run, 2 in a second run
    first_run_paths   \* destination paths at the end of the first run

cvars == << fname, category >>

pvars == << source_files, case_insensitive, print_info, files,
            processed_files, stack, pc, cout, cerr, visits, failed, copied,
            written, removed, faults, traversal_errors, run,
            first_run_paths >>

vars == << cvars, pvars >>

(***************************************************************************)
(* The destination filesystem.  A path is [dir, name]; dir is the sequence *)
(* of folders below the destination root.                                  *)
(***************************************************************************)
PathOf(f) == [dir |-> f.dir, name |-> f.name]

\* The name under which the filesystem compares a path.
Key(p) ==
    [dir |-> p.dir,
     name |-> IF case_insensitive THEN LowerOf[p.name] ELSE p.name]

\* fs::exists
exists(fs, p) == \E f \in fs : Key(PathOf(f)) = Key(p)

\* fs::remove
remove(fs, p) == { f \in fs : Key(PathOf(f)) # Key(p) }

\* fs::copy_file(source, p) to a path that does not exist
copy_file(fs, src, p) ==
    fs \cup { [dir |-> p.dir, name |-> p.name, data |-> src.id] }

(***************************************************************************)
(* organize_file                                                           *)
(***************************************************************************)
\* A registry lookup by the name as spelled.
file_already_processed_exact(path) == path.name \in processed_files

\* A registry lookup with the test inverted.
file_already_processed_inverted(path) ==
    LowerOf[path.name] \notin processed_files

\* file_already_processed
file_already_processed(path) == LowerOf[path.name] \in processed_files

\* The for loop of lines 183-191: the first i from `from` below the ceiling
\* whose indexed path does not exist, IndexCeiling when there is none.
RECURSIVE FirstFreeIndex(_, _, _)
FirstFreeIndex(fs, name, from) ==
    IF from >= IndexCeiling THEN IndexCeiling
    ELSE IF ~exists(fs, IndexedDestPathOf[name][from]) THEN from
    ELSE FirstFreeIndex(fs, name, from + 1)

\* The filesystem calls of organize_file that may throw filesystem_error.
FaultPoints ==
    { "none", "create_directories", "exists", "remove", "copy_file",
      "exists_indexed" }

\* A placer that never consults the registry.
Branch_no_registry(name) ==
    IF ~exists(files, DestPathOf[name]) THEN "fresh" ELSE "indexed"

\* The branch organize_file takes for an audio file.
Branch(name) ==
    IF ~exists(files, DestPathOf[name]) THEN "fresh"
    ELSE IF ~file_already_processed(DestPathOf[name]) THEN "overwrite"
    ELSE "indexed"

\* Whether the call named by fault is made when src is organized.
FaultApplies(src, fault) ==
    \/ fault = "none"
    \/ /\ AudioOf[src.name]
       /\ \/ fault \in { "create_directories", "exists" }
          \/ fault = "remove" /\ Branch(src.name) = "overwrite"
          \/ fault = "exists_indexed" /\ Branch(src.name) = "indexed"
          \/ fault = "copy_file"
             /\ \/ Branch(src.name) \in { "fresh", "overwrite" }
                \/ FirstFreeIndex(files, src.name, 0) < IndexCeiling

Request(src, p) == [kind |-> "Request", source |-> src.id, dest |-> p]
Moved(src, p) == [kind |-> "Moved", source |-> src.id, dest |-> p]
ErrorCopying(src) == [kind |-> "Error copying file", source |-> src.id]

\* What print_info adds to std::cout.
Printed(recs) == IF print_info THEN cout \cup recs ELSE cout

\* The state organize_file leaves when nothing was copied and nothing thrown.
Untouched ==
    [files |-> files, processed_files |-> processed_files, cout |-> cout,
     cerr |-> cerr, copied |-> copied, written |-> written,
     removed |-> removed]

\* A placer that records the name before it copies.
Caught_recorded(src, fs, out, rm) ==
    [Untouched EXCEPT !.files = fs, !.cout = out, !.removed = rm,
                      !.cerr = cerr \cup { ErrorCopying(src) },
                      !.processed_files =
                          processed_files \cup { LowerOf[src.name] }]

\* The catch block (lines 197-199) after a throw with destination tree fs.
Caught(src, fs, out, rm) ==
    [Untouched EXCEPT !.files = fs, !.cout = out, !.removed = rm,
                      !.cerr = cerr \cup { ErrorCopying(src) }]

\* A placer that copies without recording the name.
Placed_unrecorded(src, fs, p, rm) ==
    [files |-> copy_file(fs, src, p),
     processed_files |-> processed_files,
     cout |-> Printed({ Request(src, DestPathOf[src.name]), Moved(src, p) }),
     cerr |-> cerr,
     copied |-> copied \cup { src.id },
     written |-> written \cup { Key(p) },
     removed |-> rm]

\* Line 196 after a copy of src to p in destination tree fs.
Placed(src, fs, p, rm) ==
    [files |-> copy_file(fs, src, p),
     processed_files |-> processed_files \cup { LowerOf[src.name] },
     cout |-> Printed({ Request(src, DestPathOf[src.name]), Moved(src, p) }),
     cerr |-> cerr,
     copied |-> copied \cup { src.id },
     written |-> written \cup { Key(p) },
     removed |-> rm]

\* The loop of lines 183-191 ended without a copy; line 196 still runs.
Exhausted(src) ==
    [Untouched EXCEPT
        !.processed_files = processed_files \cup { LowerOf[src.name] },
        !.cout = Printed({ Request(src, DestPathOf[src.name]) })]

\* The try block for the fresh branch (lines 174-176).
CopyFresh(src, fault) ==
    IF fault = "copy_file"
    THEN Caught(src, files, Printed({ Request(src, DestPathOf[src.name]) }),
                removed)
    ELSE Placed(src, files, DestPathOf[src.name], removed)

\* The try block for the overwrite branch (lines 178-181).
CopyOverwrite(src, fault) ==
    LET p   == DestPathOf[src.name]
        req == Printed({ Request(src, p) })
        old == { f \in files : Key(PathOf(f)) = Key(p) }
    IN  IF fault = "remove" THEN Caught(src, files, req, removed)
        ELSE IF fault = "copy_file"
        THEN Caught(src, remove(files, p), req, removed \cup old)
        ELSE Placed(src, remove(files, p), p, removed \cup old)

\* The try block for the indexed branch (lines 183-191).
CopyIndexed(src, fault) ==
    LET i   == FirstFreeIndex(files, src.name, 0)
        req == Printed({ Request(src, DestPathOf[src.name]) })
    IN  IF fault = "exists_indexed" THEN Caught(src, files, req, removed)
        ELSE IF i >= IndexCeiling THEN Exhausted(src)
        ELSE IF fault = "copy_file" THEN Caught(src, files, req, removed)
        ELSE Placed(src, files, IndexedDestPathOf[src.name][i], removed)

\* organize_file(source, destination, print_info) with the filesystem call
\* named by fault throwing.
organize_file(src, fault) ==
    IF ~AudioOf[src.name] THEN Untouched
    ELSE IF fault = "create_directories" THEN Caught(src, files, cout, removed)
    ELSE IF fault = "exists"
    THEN Caught(src, files, Printed({ Request(src, DestPathOf[src.name]) }),
                removed)
    ELSE IF Branch(src.name) = "fresh" THEN CopyFresh(src, fault)
    ELSE IF Branch(src.name) = "overwrite" THEN CopyOverwrite(src, fault)
    ELSE CopyIndexed(src, fault)

(***************************************************************************)
(* process_directory: one activation per directory being listed.  The      *)
(* order in which directory_iterator yields the entries is unspecified:    *)
(* todo is the set of entries not yet yielded, and any of them is next.    *)
(***************************************************************************)
FileOf(id) == CHOOSE f \in source_files : f.id = id

\* A listing that leaves out the subdirectories.
Children_flat(d) ==
    { [kind |-> "file", id |-> f.id] :
        f \in { g \in source_files : g.dir = d } }

\* The entries directory_iterator yields for directory d.
Children(d) ==
    { [kind |-> "dir", id |-> c] :
        c \in { x \in Directories \ { 0 } : ParentOf(x) = d } }
    \cup { [kind |-> "file", id |-> f.id] :
            f \in { g \in source_files : g.dir = d } }

Frame(d) == [dir |-> d, todo |-> Children(d)]

Top == stack[Len(stack)]

\* The activation on top of the stack with entry e consumed.
Advance(e) ==
    [stack EXCEPT ![Len(stack)].todo = Top.todo \ { e }]

\* process_directory returns: its activation is popped; the run is over when
\* the activation of the source root returns.
PopFrame == SubSeq(stack, 1, Len(stack) - 1)

Init ==
    /\ fname = << >>
    /\ category = << >>
    /\ source_files \in
         { T \in SUBSET FilePool : Cardinality(T) \in 1..MaxFiles }
    /\ case_insensitive \in BOOLEAN
    /\ print_info \in BOOLEAN
    /\ files \in SUBSET PreExistingPool
    /\ processed_files = { }
    /\ stack = << Frame(0) >>
    /\ pc = "run"
    /\ cout = { }
    /\ cerr = { }
    /\ visits = [f \in { g.id : g \in source_files } |-> 0]
    /\ failed = { }
    /\ copied = { }
    /\ written = { }
    /\ removed = { }
    /\ faults = 0
    /\ traversal_errors = FALSE
    /\ run = 1
    /\ first_run_paths = { }

\* Line 208: the entry is a directory, process_directory recurses into it.
Descend ==
    /\ pc = "run"
    /\ \E e \in Top.todo :
        /\ e.kind = "dir"
        /\ stack' = Append(Advance(e), Frame(e.id))
    /\ UNCHANGED << cvars, source_files, case_insensitive, print_info, files,
                    processed_files, pc, cout, cerr, visits, failed, copied,
                    written, removed, faults, traversal_errors, run,
                    first_run_paths >>

\* Line 210: the entry is not a directory, organize_file is called on it and
\* returns (a filesystem_error thrown inside it is caught inside it).
OrganizeFile ==
    /\ pc = "run"
    /\ \E e \in Top.todo, fault \in FaultPoints :
        /\ e.kind = "file"
        /\ FaultApplies(FileOf(e.id), fault)
        /\ fault # "none" => faults < MaxFaults
        /\ LET r == organize_file(FileOf(e.id), fault)
           IN  /\ files' = r.files
               /\ processed_files' = r.processed_files
               /\ cout' = r.cout
               /\ cerr' = r.cerr
               /\ copied' = r.copied
               /\ written' = r.written
               /\ removed' = r.removed
        /\ visits' = [visits EXCEPT ![e.id] = @ + 1]
        /\ failed' = IF fault = "none" THEN failed ELSE failed \cup { e.id }
        /\ faults' = IF fault = "none" THEN faults ELSE faults + 1
        /\ stack' = Advance(e)
    /\ UNCHANGED << cvars, source_files, case_insensitive, print_info, pc,
                    traversal_errors, run, first_run_paths >>

\* The range-for of line 206 ends and process_directory returns.
Return ==
    /\ pc = "run"
    /\ Top.todo = { }
    /\ stack' = PopFrame
    /\ pc' = IF Len(stack) = 1 THEN "done" ELSE "run"
    /\ UNCHANGED << cvars, source_files, case_insensitive, print_info, files,
                    processed_files, cout, cerr, visits, failed, copied,
                    written, removed, faults, traversal_errors, run,
                    first_run_paths >>

\* Lines 213-215: listing the directory throws (the iterator's construction
\* or increment, or is_directory); the activation catches it, reports it and
\* returns, leaving its remaining entries unvisited.  A throw with no entry
\* left differs from Return only in the message and is not followed.
TraversalError ==
    /\ pc = "run"
    /\ Top.todo # { }
    /\ faults < MaxFaults
    /\ faults' = faults + 1
    /\ traversal_errors' = TRUE
    /\ cerr' = cerr \cup { [kind |-> "Error processing file system",
                            source |-> Top.dir] }
    /\ stack' = PopFrame
    /\ pc' = IF Len(stack) = 1 THEN "done" ELSE "run"
    /\ UNCHANGED << cvars, source_files, case_insensitive, print_info, files,
                    processed_files, cout, visits, failed, copied, written,
                    removed, run, first_run_paths >>

Next == Descend \/ OrganizeFile \/ Return \/ TraversalError

Spec == Init /\ [][Next]_vars

(***************************************************************************)
(* Two runs of the program on the same source and destination, with no     *)
(* filesystem call failing in either: main starts again in a new process,  *)
(* whose registry is empty (line 68).                                      *)
(***************************************************************************)
DestinationPaths == { PathOf(f) : f \in files }

\* organize_file with every filesystem call succeeding.
OrganizeFileNoFault == OrganizeFile /\ faults' = faults

StartSecondRun ==
    /\ pc = "done"
    /\ run = 1
    /\ run' = 2
    /\ first_run_paths' = DestinationPaths
    /\ processed_files' = { }
    /\ stack' = << Frame(0) >>
    /\ pc' = "run"
    /\ cout' = { }
    /\ cerr' = { }
    /\ visits' = [f \in DOMAIN visits |-> 0]
    /\ copied' = { }
    /\ written' = { }
    /\ removed' = { }
    /\ UNCHANGED << cvars, source_files, case_insensitive, print_info, files,
                    failed, faults, traversal_errors >>

NextRerun == Descend \/ OrganizeFileNoFault \/ Return \/ StartSecondRun

SpecRerun == Init /\ [][NextRerun]_vars

(***************************************************************************)
(* The program is one thread that runs until main returns: a step that is  *)
(* possible is eventually taken.  The traversal does not read print_info;  *)
(* its termination is checked for the runs that print nothing.             *)
(***************************************************************************)
InitQuiet == Init /\ ~print_info

LiveSpec == InitQuiet /\ [][Next]_vars /\ WF_vars(Next)

(***************************************************************************)
(* The classifier alone: organize_file's choice of category for one        *)
(* filename, drawn from concatenations of name fragments.                  *)
(***************************************************************************)
Fragments ==
    { << "8", "0", "8" >>, << "8", "0" >>, << "8" >>,
      << "s", "n", "a", "r", "e" >>, << "S", "n", "a", "r", "e" >>,
      << "_", "s", "n", "r" >>, << "s", "n", "r", "_" >>,
      << "s", "n", "r" >>,
      << "k", "i", "c", "k" >>, << "K", "I", "C", "K" >>,
      << "K", "i", "c", "k" >>, << "k", "i" >>, << "c", "k" >>,
      << "_", "k", "c", "k" >>, << "k", "c", "k", "_" >>,
      << "c", "l", "a", "p" >>, << "_", "c", "l", "p" >>,
      << "c", "l", "p", "_" >>,
      << "h", "a", "t" >>, << "H", "A", "T" >>, << "h", "t", "_" >>,
      << "_", "h", "t" >>, << "h", "t" >>,
      << "d", "r", "u", "m" >>, << "_", "d", "r", "m" >>,
      << "d", "r", "m", "_" >>,
      << "l", "o", "o", "p" >>, << "L", "o", "o", "P" >>, << "l", "o" >>,
      << "o", "p" >>,
      << "_" >>, << "x" >>, << "B", "a", "s", "s" >> }

RECURSIVE Concatenations(_)
Concatenations(n) ==
    IF n = 0 THEN { << >> }
    ELSE Concatenations(n - 1)
         \cup { s \o t : s \in Concatenations(n - 1), t \in Fragments }

ClassifierInputs ==
    { s \o << ".", "w", "a", "v" >> : s \in Concatenations(MaxTokens) }

InitClassify ==
    /\ fname \in ClassifierInputs
    /\ category = << >>
    /\ source_files = { }
    /\ case_insensitive = FALSE
    /\ print_info = FALSE
    /\ files = { }
    /\ processed_files = { }
    /\ stack = << >>
    /\ pc = "done"
    /\ cout = { }
    /\ cerr = { }
    /\ visits = << >>
    /\ failed = { }
    /\ copied = { }
    /\ written = { }
    /\ removed = { }
    /\ faults = 0
    /\ traversal_errors = FALSE
    /\ run = 1
    /\ first_run_paths = { }

\* Lines 116-162 of organize_file on fname.
Classify ==
    /\ category = << >>
    /\ category' = CategoryOf(fname)
    /\ UNCHANGED << fname, pvars >>

NextClassify == Classify

SpecClassify == InitClassify /\ [][NextClassify]_vars

(***************************************************************************)
(* The rule table of the classifier: priority, patterns, category.         *)
(***************************************************************************)
Rules ==
    << [pats |-> { << "8", "0", "8" >> }, cat |-> << "Drums", "808" >>],
       [pats |-> { << "s", "n", "a", "r", "e" >>, << "_", "s", "n", "r" >>,
                   << "s", "n", "r", "_" >> },
        cat |-> << "Drums", "Snare" >>],
       [pats |-> { << "k", "i", "c", "k" >>, << "_", "k", "c", "k" >>,
                   << "k", "c", "k", "_" >> },
        cat |-> << "Drums", "Kick" >>],
       [pats |-> { << "c", "l", "a", "p" >>, << "_", "c", "l", "p" >>,
                   << "c", "l", "p", "_" >> },
        cat |-> << "Drums", "Clap" >>],
       [pats |-> { << "h", "a", "t" >>, << "h", "t", "_" >>,
                   << "_", "h", "t" >> },
        cat |-> << "Drums", "Hat" >>],
       [pats |-> { << "d", "r", "u", "m" >>, << "_", "d", "r", "m" >>,
                   << "d", "r", "m", "_" >> },
        cat |-> << "Drums", "Other" >>],
       [pats |-> { << "l", "o", "o", "p" >> }, cat |-> << "Other", "Loop" >>] >>

\* The rules whose condition the lowercased filename satisfies.
Matching(lower) ==
    { i \in DOMAIN Rules : \E p \in Rules[i].pats : find(lower, p) }

\* The category of the matching rule of highest priority, or the default.
FirstMatch(lower) ==
    IF Matching(lower) = { } THEN << "Other", "Other" >>
    ELSE Rules[CHOOSE i \in Matching(lower) :
                  \A j \in Matching(lower) : i <= j].cat

\* The filename with a-z replaced by A-Z.
to_upper(str) ==
    [i \in 1..Len(str) |->
        IF \E k \in 1..26 : LowerChars[k] = str[i]
        THEN UpperChars[CHOOSE k \in 1..26 : LowerChars[k] = str[i]]
        ELSE str[i]]

\* C1: the category organize_file chooses is that of the first rule, in the
\* order 808 > Snare > Kick > Clap > Hat > Drums/Other > Loop, that the
\* lowercased filename satisfies, and Other/Other when it satisfies none.
\* Hence a name containing "808" goes to Drums/808 whatever else it
\* contains; a name containing "kick" and "loop" goes to Kick, never to
\* Loop (to Drums/Kick exactly, unless the 808 or the Snare rule, which
\* precede Kick, matches too); and names that differ only in letter case
\* (the name, its upper-case and its lower-case form) get one category.
C1_FirstMatchWins ==
    category # << >> =>
        LET lower == to_lower(fname)
            has(p) == find(lower, p)
        IN  /\ category = FirstMatch(lower)
            /\ has(<< "8", "0", "8" >>) => category = << "Drums", "808" >>
            /\ has(<< "k", "i", "c", "k" >>) /\ has(<< "l", "o", "o", "p" >>)
                 => /\ category # << "Other", "Loop" >>
                    /\ Matching(lower) \cap { 1, 2 } = { }
                         => category = << "Drums", "Kick" >>
            /\ Matching(lower) = { } => category = << "Other", "Other" >>
            /\ category = CategoryOf(to_upper(fname))
            /\ category = CategoryOf(lower)

\* A mixed-case name containing "kick" and "loop" was classified as Kick.
C1_Witness ==
    /\ category = << "Drums", "Kick" >>
    /\ fname # to_lower(fname)
    /\ find(to_lower(fname), << "k", "i", "c", "k" >>)
    /\ find(to_lower(fname), << "l", "o", "o", "p" >>)

(***************************************************************************)
(* The placer.  A step is the call of organize_file on file f when f's     *)
(* count of visits grows; no filesystem call threw in it when failed does  *)
(* not grow.                                                               *)
(***************************************************************************)
Organized(f) == visits'[f.id] = visits[f.id] + 1

NoFailure == failed' = failed

\* The file of the destination tree fs at path p, as a set.
At(fs, p) == { x \in fs : Key(PathOf(x)) = Key(p) }

\* <destination>/<stem>_<n><extension>
IndexedName(name, n) ==
    [dir |-> << >>,
     name |-> stem(name) \o << "_" >> \o to_string(n) \o extension(name)]

\* The indices below the ceiling whose indexed name is not in use.
FreeIndices(name) ==
    { n \in 0..(IndexCeiling - 1) : At(files, IndexedName(name, n)) = { } }

\* The files already organized that have the filename of f.
EarlierSameName(f) ==
    { g \in source_files :
        g.id # f.id /\ visits[g.id] = 1 /\ g.name = f.name }

\* An audio file is organized whose candidate destination exists and whose
\* lowercased name is in the registry, and no filesystem call fails.
IndexedCase(f) ==
    /\ Organized(f)
    /\ NoFailure
    /\ AudioOf[f.name]
    /\ At(files, DestPathOf[f.name]) # { }
    /\ LowerOf[f.name] \in processed_files

\* The step adds f's bytes at <destination>/<stem>_<n><extension> and
\* changes nothing else in the destination.
CopiedToIndex(f, n) ==
    files' = files \cup
        { [dir |-> << >>, name |-> IndexedName(f.name, n).name,
           data |-> f.id] }

\* No file was in the destination root before the run, nothing has failed,
\* and f is organized after k >= 1 files of its name, without failure.
LaterOfAName(f) ==
    /\ Organized(f)
    /\ NoFailure
    /\ failed = { }
    /\ AudioOf[f.name]
    /\ { x \in files : x.dir = << >> /\ x.data = 0 } = { }
    /\ Cardinality(EarlierSameName(f)) \in 1..IndexCeiling

\* In the indexed case the file is copied to
\* <destination>/<stem>_<n><extension> under the destination root, n the
\* smallest index below the ceiling whose path does not exist, and every
\* file that existed stays as it was; when no index below the ceiling is
\* free, nothing is copied.
SmallestFreeIndex(f) ==
    IndexedCase(f) =>
        IF FreeIndices(f.name) # { }
        THEN CopiedToIndex(f,
                CHOOSE i \in FreeIndices(f.name) :
                    \A j \in FreeIndices(f.name) : i <= j)
        ELSE files' = files

\* No source file has a name that differs from f's only in letter case.
NoCaseVariant(f) ==
    \A g \in source_files :
        to_lower(g.name) = to_lower(f.name) => g.name = f.name

\* C2 as stated: the indexed case copies to the smallest free index under
\* the destination root and modifies no existing file; with no indexed file
\* there before the run, the second file of a name lands at <stem>_0 and
\* the third at <stem>_1.
C2_Original ==
    [][\A f \in source_files :
        /\ SmallestFreeIndex(f)
        /\ LaterOfAName(f) =>
            CopiedToIndex(f, Cardinality(EarlierSameName(f)) - 1)
    ]_vars

\* C2 as amended: the indexed case copies to the smallest free index under
\* the destination root and modifies no existing file; with no indexed file
\* there before the run and no source file whose name differs from it only
\* in letter case, the second file of a name lands at <stem>_0 and the
\* third at <stem>_1.
C2_IndexedRename ==
    [][\A f \in source_files :
        /\ SmallestFreeIndex(f)
        /\ LaterOfAName(f) /\ NoCaseVariant(f) =>
            CopiedToIndex(f, Cardinality(EarlierSameName(f)) - 1)
    ]_vars

\* The second and the third kick.wav were placed at kick_0.wav, kick_1.wav.
C2_Witness ==
    /\ failed = { }
    /\ \E x, y \in files :
        /\ x.dir = << >> /\ x.data # 0
        /\ x.name = << "k", "i", "c", "k", "_", "0", ".", "w", "a", "v" >>
        /\ y.dir = << >> /\ y.data # 0
        /\ y.name = << "k", "i", "c", "k", "_", "1", ".", "w", "a", "v" >>

\* C3: when an audio file is organized whose candidate destination exists
\* and whose lowercased name is not in the registry, and nothing fails, the
\* file at the candidate destination is replaced by a copy of the source at
\* that path, nothing else in the destination changes (no indexed file is
\* created), and the lowercased name enters the registry.
C3_Overwrite ==
    [][\A f \in source_files :
        ( /\ Organized(f)
          /\ NoFailure
          /\ AudioOf[f.name]
          /\ At(files, DestPathOf[f.name]) # { }
          /\ LowerOf[f.name] \notin processed_files )
        => /\ files' = (files \ At(files, DestPathOf[f.name])) \cup
                { [dir |-> CategoryOf(f.name), name |-> f.name,
                   data |-> f.id] }
           /\ { x \in files' : x.dir = << >> }
                = { x \in files : x.dir = << >> }
           /\ processed_files' = processed_files \cup { to_lower(f.name) }
    ]_vars

\* A file left at a candidate destination was replaced by a source file.
C3_Witness ==
    /\ failed = { }
    /\ \E x \in removed : x.data = 0 /\ x.dir = << "Drums", "Kick" >>
    /\ \E x \in files : x.data # 0 /\ x.dir = << "Drums", "Kick" >>
    /\ { x \in files : x.dir = << >> /\ x.data # 0 } = { }

\* The lowercased names of the files that were copied in this run.
CopiedNames == { to_lower(FileOf(i).name) : i \in copied }

\* C4: the registry starts empty, never loses an element, and in every
\* state holds exactly the lowercased names of the source files that were
\* copied to some destination in this run.
C4_RegistryInvariant ==
    /\ processed_files = { }
    /\ [](processed_files = CopiedNames)
    /\ [][processed_files \subseteq processed_files']_vars

\* A file whose indexed search was exhausted and one during which a
\* filesystem call failed have been organized, and the registry holds the
\* name of a file that was copied.
C4_Witness ==
    /\ processed_files # { }
    /\ \E f \in source_files :
        /\ visits[f.id] = 1 /\ AudioOf[f.name]
        /\ f.id \notin copied /\ f.id \notin failed
    /\ \E f \in source_files : visits[f.id] = 1 /\ f.id \in failed

\* The entries of the traversal not yet handed out, over all activations.
Remaining == UNION { stack[i].todo : i \in DOMAIN stack }

\* C5: when a filesystem call fails while a file is organized, the failure
\* is reported for that file, the registry and the rest of the traversal
\* are as they would be had the file been skipped (the run goes on with the
\* remaining entries), and a run in which files failed still organizes
\* every file once unless a directory listing fails.
C5_FailureIsolation ==
    /\ [][\A f \in source_files :
            (Organized(f) /\ ~NoFailure) =>
                /\ failed' = failed \cup { f.id }
                /\ cerr' = cerr \cup
                     { [kind |-> "Error copying file", source |-> f.id] }
                /\ processed_files' = processed_files
                /\ pc' = "run"
                /\ Len(stack') = Len(stack)
                /\ Remaining' = Remaining \ { [kind |-> "file", id |-> f.id] }
       ]_vars
    /\ []((pc = "done" /\ failed # { } /\ ~traversal_errors) =>
            \A f \in source_files : visits[f.id] = 1)

\* A run ended in which one file failed and another was copied.
C5_Witness ==
    /\ pc = "done"
    /\ ~traversal_errors
    /\ failed # { }
    /\ copied # { }
    /\ \A f \in source_files : visits[f.id] = 1

\* An audio file is organized in the indexed case with every index below
\* the ceiling in use.
ExhaustedCase(f) == IndexedCase(f) /\ FreeIndices(f.name) = { }

\* C6 as stated: when the indexed search finds every candidate in use, the
\* destination is left as it was and an error is reported for the file.
C6_ExhaustionReported ==
    [][\A f \in source_files :
        ExhaustedCase(f) =>
            /\ files' = files
            /\ [kind |-> "Error copying file", source |-> f.id] \in cerr'
    ]_vars

\* C7: organizing a file whose lowercased extension is neither .wav nor
\* .mp3 changes neither the destination tree nor the registry and prints
\* nothing; no destination file holds the bytes of such a source file.
C7_NonAudioInert ==
    /\ [][\A f \in source_files :
            ( /\ Organized(f)
              /\ to_lower(extension(f.name)) \notin
                    { << ".", "w", "a", "v" >>, << ".", "m", "p", "3" >> } )
            => /\ files' = files
               /\ processed_files' = processed_files
               /\ cout' = cout
               /\ cerr' = cerr
       ]_vars
    /\ [](\A x \in files : \A f \in source_files :
            x.data = f.id =>
                to_lower(extension(f.name)) \in
                    { << ".", "w", "a", "v" >>, << ".", "m", "p", "3" >> })

\* kick.txt was organized in a verbose run that placed an audio file.
C7_Witness ==
    /\ print_info
    /\ copied # { }
    /\ \E f \in source_files :
        /\ f.name = << "k", "i", "c", "k", ".", "t", "x", "t" >>
        /\ visits[f.id] = 1

\* C8: process_directory terminates, no file is handed to organize_file
\* twice, and when no directory listing fails every file at any depth has
\* been handed to organize_file exactly once when the run ends, whatever
\* the order of the entries and whether or not files failed to copy.
C8_TraversalComplete ==
    /\ <>(pc = "done")
    /\ [](\A f \in source_files : visits[f.id] <= 1)
    /\ []((pc = "done" /\ ~traversal_errors) =>
            \A f \in source_files : visits[f.id] = 1)

\* A run ended that organized a file two directories below the source root
\* after another file had failed.
C8_Witness ==
    /\ pc = "done"
    /\ ~traversal_errors
    /\ failed # { }
    /\ \E f \in source_files : f.dir = 2 /\ visits[f.id] = 1 /\ f.id \notin failed

\* The audio files of the source tree have pairwise different lowercased
\* names.
DistinctNames ==
    \A f, g \in source_files :
        (AudioOf[f.name] /\ AudioOf[g.name] /\ f.id # g.id)
            => to_lower(f.name) # to_lower(g.name)

\* C9 as stated: a second run on the destination tree of a first run adds
\* no destination file, for every source tree.
C9_Original ==
    (run = 2 /\ pc = "done") => DestinationPaths = first_run_paths

\* C9 as amended: a second run on the destination tree of a first run adds
\* no destination file (at any point of the second run the destination
\* paths are those the first run left) when no two audio files of the
\* source tree share a lowercased filename.
C9_RerunAddsNothing ==
    (run = 2 /\ DistinctNames) => DestinationPaths = first_run_paths

\* A second run ended that overwrote two differently named files in place.
C9_Witness ==
    /\ run = 2
    /\ pc = "done"
    /\ DistinctNames
    /\ Cardinality(copied) >= 2
    /\ Cardinality(removed) >= 2

====
